---- MODULE Spec2Model ----
(***************************************************************************)
(* MultiStackQueue<T, N, M> of src/src/lib.rs: M independent ring-buffer   *)
(* queues ("lanes") of N slots each, with push / pop / is_full / is_empty. *)
(* The container's fields are the variables data, ins, outs, empty; the    *)
(* const generics N and M are variables fixed by Init.  The remaining      *)
(* variables observe the calls: result is the outcome of the last call,    *)
(* pushed / popped are the per-lane histories of the values of successful  *)
(* pushes and pops, and obs counts runs of successful calls per lane.      *)
(***************************************************************************)
EXTENDS Integers, Sequences, FiniteSets, TLC

\* Largest capacity N and lane count M explored, and the cap on the number of
\* successful pushes recorded in the histories.
MaxN == 2
MaxM == 2
MaxPush == 4

\* The values of T handed to push, and the vacant slot Option::None.
Values == {"a", "b"}
None == "None"

VARIABLES N, M, data, ins, outs, empty, result, pushed, popped, obs

vars == <<N, M, data, ins, outs, empty, result, pushed, popped, obs>>

\* The lanes 0..M-1, the slots 0..N-1 of a lane, and the lane ids handed to
\* the calls: every valid id and the first id past the end.
Lanes == 0 .. (M - 1)
Slots == 0 .. (N - 1)
Ids == 0 .. M

\* The container as one value, the `self` of the methods.
Self == [data |-> data, ins |-> ins, outs |-> outs, empty |-> empty]

\* Result values: Ok(v), Err(e), and a panic of the call.
Ok(v) == [res |-> "Ok", val |-> v]
Err(e) == [res |-> e, val |-> None]
Panic == [res |-> "Panic", val |-> None]

\* new with every lane's flag left false.
new_NotEmpty(n, m) ==
    [data |-> [l \in 0 .. (m - 1) |-> [s \in 0 .. (n - 1) |-> None]],
     ins |-> [l \in 0 .. (m - 1) |-> 0],
     outs |-> [l \in 0 .. (m - 1) |-> 0],
     empty |-> [l \in 0 .. (m - 1) |-> FALSE]]

\* MultiStackQueue::new for capacity n and m lanes.
new(n, m) ==
    [data |-> [l \in 0 .. (m - 1) |-> [s \in 0 .. (n - 1) |-> None]],
     ins |-> [l \in 0 .. (m - 1) |-> 0],
     outs |-> [l \in 0 .. (m - 1) |-> 0],
     empty |-> [l \in 0 .. (m - 1) |-> TRUE]]

\* The bounds check off by one.
IndexOutOfBounds_OffByOne(id) == id > M

\* The bounds check of push and pop: `id >= M`.
IndexOutOfBounds(id) == id >= M

\* The full test without the flag, and the full test left out.
QueueFull_NoFlag(self, id) == self.ins[id] = self.outs[id]
QueueFull_Never(self, id) == FALSE

\* The full test of try_and_push: `self.ins[id] == self.outs[id] && !self.empty[id]`.
QueueFull(self, id) == self.ins[id] = self.outs[id] /\ ~self.empty[id]

\* A cursor advanced without the modulo.
Advance_NoWrap(c) == c + 1

\* A cursor advanced by one slot: `(c + 1) % N`.
Advance(c) == (c + 1) % N

\* try_and_push writing the slot before it tests for a full lane.
try_and_push_WriteFirst(self, id, value) ==
    IF id >= M \/ self.ins[id] >= N
    THEN [self |-> self, ret |-> Panic]
    ELSE IF QueueFull(self, id)
    THEN [self |-> [self EXCEPT !.data[id][self.ins[id]] = value],
          ret |-> Err("QueueFull")]
    ELSE [self |-> [self EXCEPT !.data[id][self.ins[id]] = value,
                                !.ins[id] = Advance(self.ins[id]),
                                !.empty[id] = FALSE],
          ret |-> Ok(None)]

\* try_and_push clearing the flag of every lane.
try_and_push_ClearsAll(self, id, value) ==
    IF id >= M
    THEN [self |-> self, ret |-> Panic]
    ELSE IF QueueFull(self, id)
    THEN [self |-> self, ret |-> Err("QueueFull")]
    ELSE IF self.ins[id] >= N
    THEN [self |-> self, ret |-> Panic]
    ELSE [self |-> [self EXCEPT !.data[id][self.ins[id]] = value,
                                !.ins[id] = Advance(self.ins[id]),
                                !.empty = [l \in DOMAIN self.empty |-> FALSE]],
          ret |-> Ok(None)]

\* try_and_push advancing the in cursor before it writes the slot.
try_and_push_AdvanceFirst(self, id, value) ==
    IF id >= M
    THEN [self |-> self, ret |-> Panic]
    ELSE IF QueueFull(self, id)
    THEN [self |-> self, ret |-> Err("QueueFull")]
    ELSE IF self.ins[id] >= N
    THEN [self |-> self, ret |-> Panic]
    ELSE [self |-> [self EXCEPT !.data[id][Advance(self.ins[id])] = value,
                                !.ins[id] = Advance(self.ins[id]),
                                !.empty[id] = FALSE],
          ret |-> Ok(None)]

\* try_and_push: the new container and the returned value.  Indexing a
\* per-lane array at an id outside 0..M-1, or the lane's slots at a cursor
\* outside 0..N-1, panics before anything is written.
try_and_push(self, id, value) ==
    IF id >= M
    THEN [self |-> self, ret |-> Panic]
    ELSE IF QueueFull(self, id)
    THEN [self |-> self, ret |-> Err("QueueFull")]
    ELSE IF self.ins[id] >= N
    THEN [self |-> self, ret |-> Panic]
    ELSE [self |-> [self EXCEPT !.data[id][self.ins[id]] = value,
                                !.ins[id] = Advance(self.ins[id]),
                                !.empty[id] = FALSE],
          ret |-> Ok(None)]

\* push: the bounds check, then try_and_push.
push(self, id, value) ==
    IF IndexOutOfBounds(id)
    THEN [self |-> self, ret |-> Err("QueueIndexOutOfBounds")]
    ELSE try_and_push(self, id, value)

\* The emptiness update that never sets the flag.
EmptyAfterPop_Stale(self, id, out) == self.empty[id]

\* The emptiness update that sets the flag after every pop.
EmptyAfterPop_Always(self, id, out) == TRUE

\* The emptiness update of try_and_pop: the flag is set when the advanced
\* out cursor meets the in cursor, and is left alone otherwise.
EmptyAfterPop(self, id, out) ==
    IF out = self.ins[id] THEN TRUE ELSE self.empty[id]

\* try_and_pop reading the slot without take(): the slot keeps its value.
try_and_pop_NoTake(self, id) ==
    IF id >= M
    THEN [self |-> self, ret |-> Panic]
    ELSE IF self.empty[id]
    THEN [self |-> self, ret |-> Err("QueueEmpty")]
    ELSE IF self.outs[id] >= N
    THEN [self |-> self, ret |-> Panic]
    ELSE IF self.data[id][self.outs[id]] = None
    THEN [self |-> self, ret |-> Panic]
    ELSE LET out == Advance(self.outs[id]) IN
         [self |-> [self EXCEPT !.outs[id] = out,
                                !.empty[id] = EmptyAfterPop(self, id, out)],
          ret |-> Ok(self.data[id][self.outs[id]])]

\* try_and_pop: the new container and the returned value.  Indexing at an
\* id outside 0..M-1 or at a cursor outside 0..N-1 panics, and so does
\* unwrap() of a vacant slot (take() of a vacant slot leaves it vacant).
try_and_pop(self, id) ==
    IF id >= M
    THEN [self |-> self, ret |-> Panic]
    ELSE IF self.empty[id]
    THEN [self |-> self, ret |-> Err("QueueEmpty")]
    ELSE IF self.outs[id] >= N
    THEN [self |-> self, ret |-> Panic]
    ELSE IF self.data[id][self.outs[id]] = None
    THEN [self |-> self, ret |-> Panic]
    ELSE LET out == Advance(self.outs[id]) IN
         [self |-> [self EXCEPT !.data[id][self.outs[id]] = None,
                                !.outs[id] = out,
                                !.empty[id] = EmptyAfterPop(self, id, out)],
          ret |-> Ok(self.data[id][self.outs[id]])]

\* pop answering an out-of-range id with the reserved variant.
pop_Reserved(self, id) ==
    IF IndexOutOfBounds(id)
    THEN [self |-> self, ret |-> Err("UnknowmError")]
    ELSE try_and_pop(self, id)

\* pop: the bounds check, then try_and_pop.
pop(self, id) ==
    IF IndexOutOfBounds(id)
    THEN [self |-> self, ret |-> Err("QueueIndexOutOfBounds")]
    ELSE try_and_pop(self, id)

\* is_full without the flag.
is_full_NoFlag(id) == ins[id] = outs[id]

\* is_full and is_empty of a valid lane.
is_full(id) == ~empty[id] /\ ins[id] = outs[id]
is_empty(id) == empty[id]

\* Number of values lane l holds according to the calls made: successful
\* pushes to l minus successful pops from l.
Held(l) == Len(pushed[l]) - Len(popped[l])

\* Successful pushes recorded so far, over all lanes.
RECURSIVE PushedUpTo(_)
PushedUpTo(l) == IF l < 0 THEN 0 ELSE Len(pushed[l]) + PushedUpTo(l - 1)
TotalPushed == PushedUpTo(M - 1)

\* What is observed of a lane's successful calls:
\*   np      length of the latest run of successful pushes,
\*   nq      number of successful pops since that run,
\*   streak  successful pushes since the lane last held no value with no
\*           successful pop since then (-1 once a pop left a value behind),
\*   refill  successful pushes since N pushes followed by N pops completed,
\*           with no pop since then (-1 outside such a phase),
\*   cycles  number of times N pushes followed by N pops completed.
NoObs == [np |-> 0, nq |-> 0, streak |-> 0, refill |-> -1, cycles |-> 0]

ObservePush(o) ==
    [np |-> IF o.nq > 0 THEN 1 ELSE o.np + 1,
     nq |-> 0,
     streak |-> IF o.streak = -1 THEN -1 ELSE o.streak + 1,
     refill |-> IF o.refill = -1 THEN -1 ELSE o.refill + 1,
     cycles |-> o.cycles]

ObservePop(o, left) ==
    LET done == o.np >= N /\ o.nq + 1 = N IN
    [np |-> o.np,
     nq |-> o.nq + 1,
     streak |-> IF left = 0 THEN 0 ELSE -1,
     refill |-> IF done THEN 0 ELSE -1,
     cycles |-> IF done THEN o.cycles + 1 ELSE o.cycles]

\* The state after construction, for a capacity n and a lane count m.
InitWith(n, m) ==
    /\ N = n
    /\ M = m
    /\ data = new(n, m).data
    /\ ins = new(n, m).ins
    /\ outs = new(n, m).outs
    /\ empty = new(n, m).empty
    /\ result = [op |-> "new", id |-> 0, res |-> "Ok", val |-> None]
    /\ pushed = [l \in 0 .. (m - 1) |-> <<>>]
    /\ popped = [l \in 0 .. (m - 1) |-> <<>>]
    /\ obs = [l \in 0 .. (m - 1) |-> NoObs]

Init == \E n \in 1 .. MaxN : \E m \in 1 .. MaxM : InitWith(n, m)

\* A call msq.push(id, v).  A panic ends the program.
Push(id, v) ==
    LET out == push(Self, id, v)
        ok == out.ret.res = "Ok" IN
    /\ result.res # "Panic"
    /\ ok => TotalPushed < MaxPush
    /\ data' = out.self.data
    /\ ins' = out.self.ins
    /\ outs' = out.self.outs
    /\ empty' = out.self.empty
    /\ result' = [op |-> "push", id |-> id, res |-> out.ret.res, val |-> out.ret.val]
    /\ pushed' = IF ok THEN [pushed EXCEPT ![id] = Append(@, v)] ELSE pushed
    /\ obs' = IF ok THEN [obs EXCEPT ![id] = ObservePush(@)] ELSE obs
    /\ UNCHANGED <<N, M, popped>>

\* A call msq.pop(id).
Pop(id) ==
    LET out == pop(Self, id)
        ok == out.ret.res = "Ok" IN
    /\ result.res # "Panic"
    /\ data' = out.self.data
    /\ ins' = out.self.ins
    /\ outs' = out.self.outs
    /\ empty' = out.self.empty
    /\ result' = [op |-> "pop", id |-> id, res |-> out.ret.res, val |-> out.ret.val]
    /\ popped' = IF ok THEN [popped EXCEPT ![id] = Append(@, out.ret.val)] ELSE popped
    /\ obs' = IF ok THEN [obs EXCEPT ![id] = ObservePop(@, Held(id) - 1)] ELSE obs
    /\ UNCHANGED <<N, M, pushed>>

Next ==
    \/ \E id \in Ids : \E v \in Values : Push(id, v)
    \/ \E id \in Ids : Pop(id)

Spec == Init /\ [][Next]_vars

\* Every instantiation the type admits: N and M are usize const generics, so
\* a capacity of 0 and a lane count of 0 are instantiations too.
InitAny == \E n \in 0 .. MaxN : \E m \in 0 .. MaxM : InitWith(n, m)

SpecAny == InitAny /\ [][Next]_vars

\* The bool a query returns, as a value of result.val.
Bool(b) == IF b THEN "true" ELSE "false"

\* is_full answering an out-of-range id with false instead of panicking.
is_full_ret_Lenient(id) ==
    IF id >= M THEN Ok(Bool(FALSE)) ELSE Ok(Bool(is_full(id)))

\* What a call is_full(id) / is_empty(id) returns.  Neither method checks
\* id: indexing the [bool; M] array empty at an id outside 0..M-1 panics.
is_full_ret(id) ==
    IF id >= M THEN Panic ELSE Ok(Bool(is_full(id)))

is_empty_ret(id) ==
    IF id >= M THEN Panic ELSE Ok(Bool(is_empty(id)))

\* A call msq.is_full(id): &self, nothing is written.
IsFull(id) ==
    /\ result.res # "Panic"
    /\ result' = [op |-> "is_full", id |-> id,
                  res |-> is_full_ret(id).res, val |-> is_full_ret(id).val]
    /\ UNCHANGED <<N, M, data, ins, outs, empty, pushed, popped, obs>>

\* A call msq.is_empty(id).
IsEmpty(id) ==
    /\ result.res # "Panic"
    /\ result' = [op |-> "is_empty", id |-> id,
                  res |-> is_empty_ret(id).res, val |-> is_empty_ret(id).val]
    /\ UNCHANGED <<N, M, data, ins, outs, empty, pushed, popped, obs>>

\* The calls of a client that also queries the lanes.  The queries read
\* only flags and cursors, which do not depend on the values pushed, so
\* this client pushes one value only.
NextQueries ==
    \/ \E id \in Ids : Push(id, "a")
    \/ \E id \in Ids : Pop(id)
    \/ \E id \in Ids : IsFull(id)
    \/ \E id \in Ids : IsEmpty(id)

SpecQueries == InitAny /\ [][NextQueries]_vars

(***************************************************************************)
(* The claims.                                                             *)
(***************************************************************************)

\* The error values push and pop return.
Errors == {"QueueFull", "QueueEmpty", "QueueIndexOutOfBounds"}

\* C1: FIFO per lane.  In every reachable state and for every lane l, the
\* values the successful pop(l) calls returned are, in order, the first
\* values given to the successful push(l, v) calls: popped[l] is a prefix of
\* pushed[l], so no value is returned twice, skipped or reordered.
C1_FifoPerLane ==
    \A l \in Lanes :
        /\ Len(popped[l]) <= Len(pushed[l])
        /\ \A i \in 1 .. Len(popped[l]) : popped[l][i] = pushed[l][i]

\* C1 witness: with N = 2, three values popped from a lane behind four
\* pushes by an Ok pop, two neighbouring ones differing (the cursors wrapped).
C1_Witness ==
    \E l \in Lanes :
        /\ N = 2
        /\ Len(pushed[l]) = 4
        /\ Len(popped[l]) = 3
        /\ popped[l][2] # popped[l][3]
        /\ result = [op |-> "pop", id |-> l, res |-> "Ok", val |-> popped[l][3]]

\* C2: capacity boundary.  For every lane l that held no value and has since
\* seen only pushes (obs[l].streak counts the successful ones): at most N of
\* them succeeded, a push(l, v) that returned Ok is one of the first N, and
\* a push(l, v) that failed returned QueueFull as the (N+1)-th.
C2_CapacityBoundary ==
    \A l \in Lanes :
        obs[l].streak # -1 =>
            /\ obs[l].streak <= N
            /\ (result.op = "push" /\ result.id = l) =>
                   \/ result.res = "Ok" /\ obs[l].streak >= 1
                   \/ result.res = "QueueFull" /\ obs[l].streak = N

\* C2 witness: with N = 2, a lane emptied by a pop took two pushes and the
\* third has just returned QueueFull.
C2_Witness ==
    \E l \in Lanes :
        /\ N = 2
        /\ Len(popped[l]) >= 1
        /\ obs[l].streak = N
        /\ result.op = "push" /\ result.id = l /\ result.res = "QueueFull"

\* C3: empty boundary.  A pop(l) on a valid lane returned QueueEmpty when the
\* lane held no value (it still holds none) and Ok with a value when it held
\* one (the count after the pop is not negative), and nothing else.
C3_EmptyBoundary ==
    (result.op = "pop" /\ result.id \in Lanes) =>
        \/ result.res = "QueueEmpty" /\ Held(result.id) = 0
        \/ result.res = "Ok" /\ result.val \in Values /\ Held(result.id) >= 0

\* C3 witness: pop returned QueueEmpty on a lane that pops had emptied.
C3_Witness ==
    /\ result.op = "pop" /\ result.id \in Lanes /\ result.res = "QueueEmpty"
    /\ Len(popped[result.id]) >= 1

\* C4: bounds check.  A push or pop returned QueueIndexOutOfBounds exactly
\* when its id was >= M, whatever the lanes held.
C4_BoundsCheck ==
    result.op \in {"push", "pop"} =>
        (result.res = "QueueIndexOutOfBounds" <=> result.id >= M)

\* C4 witness: a push with id = M returned QueueIndexOutOfBounds while a
\* lane was full and another one empty.
C4_Witness ==
    /\ result = [op |-> "push", id |-> M, res |-> "QueueIndexOutOfBounds", val |-> None]
    /\ \E l \in Lanes : is_full(l)
    /\ \E l \in Lanes : is_empty(l)

\* C5: state unchanged on error.  A step whose call returns QueueFull,
\* QueueEmpty or QueueIndexOutOfBounds leaves data, ins, outs and empty as
\* they were.
C5_UnchangedOnError ==
    [][result'.res \in Errors => UNCHANGED <<data, ins, outs, empty>>]_vars

\* C5 witness: a push has returned QueueFull on a lane whose cursors are not
\* at slot 0.
C5_Witness ==
    /\ result.op = "push" /\ result.id \in Lanes /\ result.res = "QueueFull"
    /\ ins[result.id] # 0

\* C6: lane isolation.  A step that is a push or pop on lane id i,
\* successful or not, leaves the slots, in cursor, out cursor and flag of
\* every other lane j as they were (and with them is_full(j), is_empty(j)
\* and what later pops on j return).
C6_LaneIsolation ==
    [][\A j \in Lanes :
          result'.id # j =>
              /\ data'[j] = data[j]
              /\ ins'[j] = ins[j]
              /\ outs'[j] = outs[j]
              /\ empty'[j] = empty[j]]_vars

\* C6 witness: a push on one lane has succeeded while another lane holds a
\* value and is not full.
C6_Witness ==
    \E i \in Lanes : \E j \in Lanes :
        /\ i # j
        /\ result.op = "push" /\ result.id = i /\ result.res = "Ok"
        /\ Held(j) >= 1
        /\ ~is_full(j)

\* C7: full/empty complementarity.  For every lane l, is_full(l) and
\* is_empty(l) are never both true, and right after new() every lane has
\* is_empty(l) true and is_full(l) false.
C7_FullEmptyComplementarity ==
    /\ \A l \in Lanes : ~(is_full(l) /\ is_empty(l))
    /\ result.op = "new" => \A l \in Lanes : is_empty(l) /\ ~is_full(l)

\* C7 witness: one lane reports full and not empty while another reports
\* empty and not full, its cursors coinciding away from slot 0.
C7_Witness ==
    \E i \in Lanes : \E j \in Lanes :
        /\ is_full(i) /\ ~is_empty(i)
        /\ is_empty(j) /\ ~is_full(j)
        /\ ins[j] = outs[j] /\ ins[j] # 0

C8_ShiftedCycle ==
    \E l \in Lanes :
        /\ N = 2
        /\ obs[l].refill = 0
        /\ ins[l] = 1
        /\ is_empty(l)

C10_IsEmptyExact ==
    \A l \in Lanes :
        /\ is_empty(l) <=> Held(l) = 0
        /\ (result.op = "pop" /\ result.id = l /\ result.res = "Ok" /\ Held(l) = 0) =>
               /\ Len(pushed[l]) >= 1
               /\ result.val = pushed[l][Len(pushed[l])]
               /\ is_empty(l)

\* C10 witness: a push on an empty lane followed by a pop: the pop has
\* returned Ok and the lane is empty again, away from slot 0.
C10_Witness ==
    \E l \in Lanes :
        /\ obs[l].np = 1 /\ obs[l].nq = 1
        /\ result.op = "pop" /\ result.id = l /\ result.res = "Ok"
        /\ is_empty(l)
        /\ outs[l] # 0

\* C11: no uncontrolled abort.  For every capacity N >= 0 and lane count
\* M >= 0, every call of push or pop, with any id, returns Ok, QueueFull,
\* QueueEmpty or QueueIndexOutOfBounds and never panics (no slot index out
\* of range, no modulo by zero, no unwrap of a vacant slot).
C11_NoUncontrolledAbort ==
    result.op \in {"push", "pop"} =>
        result.res \in {"Ok", "QueueFull", "QueueEmpty", "QueueIndexOutOfBounds"}

\* C11, the part the code keeps: with N >= 1 no call of push or pop panics.
C11_NoAbortWithSlots ==
    N >= 1 => C11_NoUncontrolledAbort

\* C12: the reserved error variant is unreachable.  No call of push or pop
\* has returned UnknowmError, and in no reachable state would a push or pop,
\* with any id and value, return it.
C12_ReservedVariantUnreachable ==
    /\ result.res # "UnknowmError"
    /\ \A id \in Ids :
           /\ pop(Self, id).ret.res # "UnknowmError"
           /\ \A v \in Values : push(Self, id, v).ret.res # "UnknowmError"

\* C12 witness: a pop with an out-of-range id has returned an error of
\* another variant while one lane was full and another one empty.
C12_Witness ==
    /\ result = [op |-> "pop", id |-> M, res |-> "QueueIndexOutOfBounds", val |-> None]
    /\ \E l \in Lanes : is_full(l)
    /\ \E l \in Lanes : is_empty(l)

\* The number of slots from out cursor (inclusive) to in cursor (exclusive)
\* walked modulo N: none when the lane's flag is set, all N when the cursors
\* coincide with the flag clear.
Span(l) ==
    IF empty[l] THEN 0
    ELSE IF ins[l] = outs[l] THEN N
    ELSE (ins[l] - outs[l] + N) % N

\* The slots of lane l walked from the out cursor, Span(l) of them.
Walked(l) == {(outs[l] + i) % N : i \in 0 .. (Span(l) - 1)}

\* C13: slot occupancy.  For every lane l, the slots walked from out cursor
\* to in cursor hold, in that order, the values pushed to l and not yet
\* popped (oldest first), and every other slot is vacant.
C13_SlotOccupancy ==
    \A l \in Lanes :
        /\ Len(popped[l]) + Span(l) <= Len(pushed[l])
        /\ \A i \in 0 .. (Span(l) - 1) :
               data[l][(outs[l] + i) % N] = pushed[l][Len(popped[l]) + 1 + i]
        /\ \A s \in Slots \ Walked(l) : data[l][s] = None
        /\ \A s \in Walked(l) : data[l][s] # None

\* C13 witness: with N = 2, a lane holds one value in slot 1 and slot 0 is
\* vacant again after a pop, while another lane is full with two different
\* values.
C13_Witness ==
    \E l \in Lanes : \E k \in Lanes :
        /\ N = 2
        /\ outs[l] = 1 /\ ins[l] = 0 /\ ~empty[l]
        /\ data[l][0] = None /\ data[l][1] # None
        /\ is_full(k)
        /\ data[k][0] # data[k][1]

C15_PushStep ==
    [][(result'.op = "push" /\ result'.res = "Ok") =>
          LET l == result'.id
              v == pushed'[l][Len(pushed'[l])] IN
          /\ data' = [data EXCEPT ![l][ins[l]] = v]
          /\ ins' = [ins EXCEPT ![l] = (ins[l] + 1) % N]
          /\ empty' = [empty EXCEPT ![l] = FALSE]
          /\ outs' = outs]_vars

\* C15 witness: with N = 2, a push has returned Ok on a lane whose in cursor
\* was at slot 1 and wrapped to slot 0, the lane holding a value already.
C15_Witness ==
    \E l \in Lanes :
        /\ N = 2
        /\ result.op = "push" /\ result.id = l /\ result.res = "Ok"
        /\ ins[l] = 0
        /\ Held(l) = 2
        /\ Len(popped[l]) >= 1

\* C16: successful pop step.  A step in which pop(l) returns Ok(v): v is the
\* value that was in slot old out cursor of lane l, that slot is now vacant,
\* the out cursor of l is (old out cursor + 1) mod N, the flag of l is true
\* exactly when the new out cursor equals the in cursor; the in cursor of l,
\* the other slots of l and the other lanes are as they were.
C16_PopStep ==
    [][(result'.op = "pop" /\ result'.res = "Ok") =>
          LET l == result'.id IN
          /\ result'.val = data[l][outs[l]]
          /\ result'.val \in Values
          /\ data' = [data EXCEPT ![l][outs[l]] = None]
          /\ outs' = [outs EXCEPT ![l] = (outs[l] + 1) % N]
          /\ empty' = [empty EXCEPT ![l] = (outs'[l] = ins[l])]
          /\ ~empty[l]
          /\ ins' = ins]_vars

\* C16 witness: with N = 2, a pop has returned Ok on a full lane whose out
\* cursor was at slot 1 and wrapped to slot 0; the lane is not empty.
C16_Witness ==
    \E l \in Lanes :
        /\ N = 2
        /\ result.op = "pop" /\ result.id = l /\ result.res = "Ok"
        /\ outs[l] = 0 /\ ins[l] = 1
        /\ Len(popped[l]) = 2
        /\ ~empty[l]

\* C16, a further state of the claim's case: the pop took the lane's last
\* value and the flag is set with both cursors at slot 1.
C16_LastValue ==
    \E l \in Lanes :
        /\ N = 2
        /\ result.op = "pop" /\ result.id = l /\ result.res = "Ok"
        /\ outs[l] = 1 /\ ins[l] = 1
        /\ empty[l]

\* C17: cursors coincide on empty.  For every lane, a set flag implies
\* in cursor = out cursor; equivalently, when the cursors differ the lane is
\* neither empty nor full.
C17_CursorsCoincideOnEmpty ==
    \A l \in Lanes :
        /\ empty[l] => ins[l] = outs[l]
        /\ ins[l] # outs[l] => ~is_empty(l) /\ ~is_full(l)

\* C17 witness: with N = 2, one lane is empty with both cursors at slot 1
\* while the cursors of another lane differ.
C17_Witness ==
    \E l \in Lanes : \E k \in Lanes :
        /\ N = 2
        /\ empty[l] /\ ins[l] = 1 /\ outs[l] = 1
        /\ ins[k] # outs[k]

\* The number of occupied (Some) slots of lane l.
Occupied(l) == Cardinality({s \in DOMAIN data[l] : data[l][s] # None})

\* C18: conservation of values.  For every lane l, the number of occupied
\* slots equals successful pushes to l minus successful pops from l, lies
\* between 0 and N, and is 0 if the flag is set, N if the flag is clear and
\* the cursors coincide, and (in cursor - out cursor) mod N otherwise.
C18_Conservation ==
    \A l \in Lanes :
        /\ Occupied(l) = Held(l)
        /\ 0 <= Occupied(l) /\ Occupied(l) <= N
        /\ Occupied(l) = Span(l)

\* C18 witness: with N = 2, a lane holds one value with the in cursor
\* wrapped behind the out cursor, while another lane holds N values.
C18_Witness ==
    \E l \in Lanes : \E k \in Lanes :
        /\ N = 2
        /\ ins[l] = 0 /\ outs[l] = 1 /\ Occupied(l) = 1
        /\ Occupied(k) = N

\* pop(l) repeated on the container self until a call does not return Ok, at
\* most fuel times: how many calls returned Ok, and what the next call
\* returned ("more" when the fuel ran out first).
RECURSIVE Drain(_, _, _)
Drain(self, l, fuel) ==
    IF fuel = 0 THEN [count |-> 0, last |-> "more"]
    ELSE LET out == pop(self, l) IN
         IF out.ret.res = "Ok"
         THEN LET rest == Drain(out.self, l, fuel - 1) IN
              [count |-> rest.count + 1, last |-> rest.last]
         ELSE [count |-> 0, last |-> out.ret.res]

\* push(l, v) repeated in the same way.
RECURSIVE Fill(_, _, _, _)
Fill(self, l, v, fuel) ==
    IF fuel = 0 THEN [count |-> 0, last |-> "more"]
    ELSE LET out == push(self, l, v) IN
         IF out.ret.res = "Ok"
         THEN LET rest == Fill(out.self, l, v, fuel - 1) IN
              [count |-> rest.count + 1, last |-> rest.last]
         ELSE [count |-> 0, last |-> out.ret.res]

C20_QueriesOutOfRange ==
    [][/\ result'.op \in {"is_full", "is_empty"} =>
              /\ UNCHANGED <<data, ins, outs, empty>>
              /\ IF result'.id < M
                 THEN /\ result'.res = "Ok"
                      /\ result'.val \in {"true", "false"}
                      /\ result'.op = "is_full" =>
                             (result'.val = "true" <=>
                                  ~empty[result'.id] /\ ins[result'.id] = outs[result'.id])
                      /\ result'.op = "is_empty" =>
                             (result'.val = "true" <=> empty[result'.id])
                 ELSE /\ result'.res = "Panic"
                      /\ result'.val \notin {"true", "false"}
       /\ (result'.op \in {"push", "pop"} /\ result'.id >= M) =>
              result'.res = "QueueIndexOutOfBounds"]_vars

\* C20 witness: is_full(M) has panicked on a container with a full lane.
C20_Witness ==
    /\ result = [op |-> "is_full", id |-> M, res |-> "Panic", val |-> None]
    /\ \E l \in Lanes : is_full(l)

\* C20, a further state of the claim's case: is_full of a valid lane has
\* returned true.
C20_ValidQuery ==
    /\ result.op = "is_full" /\ result.id \in Lanes
    /\ result.res = "Ok" /\ result.val = "true"

====
